---- MODULE Spec2Model ----
(***************************************************************************)
(* Model of the mp4ameta payload core: the typed value codec `Data`        *)
(* (src/src/data.rs) and the content tree `Content`                        *)
(* (src/mp4ameta/src/content.rs).                                          *)
(*                                                                         *)
(* A Data value is the record [tag, val, code]: `val` is the byte vector   *)
(* of Reserved/Jpeg/Png, or the sequence of Unicode scalar values of the   *)
(* String of Utf8/Utf16; `code` is the pending type code of Unparsed.      *)
(*                                                                         *)
(* A type code is kept as its 32 bit word, written as the four bytes of    *)
(* the word, high byte first.  The source declares the constants as i8,    *)
(* the field of Unparsed as u32 and reads the sub-header with read_i32;    *)
(* the word is what all three agree on: the constant -1 widened to 32 bits *)
(* is FF FF FF FF whether it is then read as the i32 -1 or as the u32      *)
(* 4294967295, and two codes are equal exactly when their words are.       *)
(* A reader is a Cursor over a byte vector: the bytes `buf` and the        *)
(* position `pos`.  The writer is a Vec<u8> sink that accepts every byte.  *)
(***************************************************************************)
EXTENDS Integers, Sequences, FiniteSets, TLC

\* ------------------------------------------------------------------------
\* Well-known data type codes
TYPED == -1
RESERVED == 0
UTF8 == 1
UTF16 == 2
UTF8SORT == 4
JPEG == 13
PNG == 14
BESIGNED == 21

\* ------------------------------------------------------------------------
\* byteorder: big-endian integers

\* the 32 bit word of the integer n in two's complement (the widening of an
\* i8 constant, or a length), as its four bytes, high byte first
Word32(n) ==
  LET m == IF n >= 0 THEN n ELSE -(n + 1)
      b == <<m \div 16777216, (m \div 65536) % 256, (m \div 256) % 256, m % 256>>
  IN IF n >= 0 THEN b ELSE [i \in 1..4 |-> 255 - b[i]]

\* write_i32::<BigEndian>: the four bytes of the word of n
WriteI32(n) == Word32(n)

\* read_i32::<BigEndian> of four bytes: the word they spell, high byte first
ReadI32(b) == <<b[1], b[2], b[3], b[4]>>

\* write_u16::<BigEndian>
WriteU16(u) == <<u \div 256, u % 256>>

\* the code field of a value or a result that carries no type code
NoCode == Word32(0)

\* ------------------------------------------------------------------------
\* The Data enum
Reserved(v) == [tag |-> "Reserved", val |-> v, code |-> NoCode]
Utf8(s) == [tag |-> "Utf8", val |-> s, code |-> NoCode]
Utf16(s) == [tag |-> "Utf16", val |-> s, code |-> NoCode]
Jpeg(v) == [tag |-> "Jpeg", val |-> v, code |-> NoCode]
Png(v) == [tag |-> "Png", val |-> v, code |-> NoCode]
\* Unparsed(w): the pending type code as its word
Unparsed(w) == [tag |-> "Unparsed", val |-> <<>>, code |-> w]

IsResolved(d) == d.tag \in {"Reserved", "Utf8", "Utf16", "Jpeg", "Png"}

\* ------------------------------------------------------------------------
\* Strings: a String is a sequence of Unicode scalar values; its bytes are
\* its UTF-8 encoding, its UTF-16 form is what encode_utf16 yields.

Concat(f, n) ==
  LET RECURSIVE cat(_)
      cat(i) == IF i > n THEN <<>> ELSE f[i] \o cat(i + 1)
  IN cat(1)

\* char::encode_utf8
EncodeUtf8Char(c) ==
  IF c < 128 THEN <<c>>
  ELSE IF c < 2048 THEN <<192 + (c \div 64), 128 + (c % 64)>>
  ELSE IF c < 65536 THEN
    <<224 + (c \div 4096), 128 + ((c \div 64) % 64), 128 + (c % 64)>>
  ELSE <<240 + (c \div 262144), 128 + ((c \div 4096) % 64),
         128 + ((c \div 64) % 64), 128 + (c % 64)>>

\* String::as_bytes
AsBytes(s) == Concat([i \in 1..Len(s) |-> EncodeUtf8Char(s[i])], Len(s))

\* String::len: the number of bytes of the UTF-8 encoding
StrLen(s) == Len(AsBytes(s))

\* char::encode_utf16
EncodeUtf16Char(c) ==
  IF c < 65536 THEN <<c>>
  ELSE <<55296 + ((c - 65536) \div 1024), 56320 + ((c - 65536) % 1024)>>

\* str::encode_utf16
EncodeUtf16(s) == Concat([i \in 1..Len(s) |-> EncodeUtf16Char(s[i])], Len(s))

IsCont(b) == b >= 128 /\ b <= 191

\* String::from_utf8: [ok, s]; ok is FALSE on the first ill-formed sequence
FromUtf8(bytes) ==
  LET n == Len(bytes)
      RECURSIVE dec(_, _)
      dec(i, acc) ==
        IF i > n THEN [ok |-> TRUE, s |-> acc]
        ELSE LET b0 == bytes[i]
                 has(k) == i + k <= n
                 b(k) == bytes[i + k]
                 bad == [ok |-> FALSE, s |-> <<>>]
             IN IF b0 < 128 THEN dec(i + 1, Append(acc, b0))
                ELSE IF b0 >= 194 /\ b0 <= 223 THEN
                  IF has(1) /\ IsCont(b(1))
                  THEN dec(i + 2, Append(acc, (b0 - 192) * 64 + (b(1) - 128)))
                  ELSE bad
                ELSE IF b0 >= 224 /\ b0 <= 239 THEN
                  IF /\ has(2)
                     /\ IsCont(b(1)) /\ IsCont(b(2))
                     /\ (b0 = 224 => b(1) >= 160)
                     /\ (b0 = 237 => b(1) <= 159)
                  THEN dec(i + 3, Append(acc, (b0 - 224) * 4096
                                  + (b(1) - 128) * 64 + (b(2) - 128)))
                  ELSE bad
                ELSE IF b0 >= 240 /\ b0 <= 244 THEN
                  IF /\ has(3)
                     /\ IsCont(b(1)) /\ IsCont(b(2)) /\ IsCont(b(3))
                     /\ (b0 = 240 => b(1) >= 144)
                     /\ (b0 = 244 => b(1) <= 143)
                  THEN dec(i + 4, Append(acc, (b0 - 240) * 262144
                                  + (b(1) - 128) * 4096
                                  + (b(2) - 128) * 64 + (b(3) - 128)))
                  ELSE bad
                ELSE bad
  IN dec(1, <<>>)

IsHigh(u) == u >= 55296 /\ u <= 56319
IsLow(u) == u >= 56320 /\ u <= 57343

\* String::from_utf16: [ok, s]; ok is FALSE on an unpaired surrogate
FromUtf16(units) ==
  LET n == Len(units)
      RECURSIVE dec(_, _)
      dec(i, acc) ==
        IF i > n THEN [ok |-> TRUE, s |-> acc]
        ELSE LET u == units[i]
             IN IF ~IsHigh(u) /\ ~IsLow(u) THEN dec(i + 1, Append(acc, u))
                ELSE IF IsHigh(u) /\ i + 1 <= n /\ IsLow(units[i + 1])
                THEN dec(i + 2, Append(acc, 65536 + (u - 55296) * 1024
                                            + (units[i + 1] - 56320)))
                ELSE [ok |-> FALSE, s |-> <<>>]
  IN dec(1, <<>>)

\* ------------------------------------------------------------------------
\* The reader: a Cursor [buf, pos] (Read + Seek)

Remaining(rd) == IF rd.pos >= Len(rd.buf) THEN 0 ELSE Len(rd.buf) - rd.pos

\* Read::read_exact of n bytes: [ok, val, pos]
ReadExact(rd, n) ==
  IF n <= Remaining(rd)
  THEN [ok |-> TRUE, val |-> SubSeq(rd.buf, rd.pos + 1, rd.pos + n),
        pos |-> rd.pos + n]
  ELSE [ok |-> FALSE, val |-> <<>>, pos |-> rd.pos]

\* Data::read_u8_vec: [kind, val, pos], kind "Ok" or "Io"
ReadU8Vec(rd, length) ==
  LET r == ReadExact(rd, length)
  IN [kind |-> IF r.ok THEN "Ok" ELSE "Io", val |-> r.val, pos |-> r.pos]

\* Data::read_u16_vec: length big-endian 16 bit units
ReadU16Vec(rd, length) ==
  LET r == ReadExact(rd, 2 * length)
  IN [kind |-> IF r.ok THEN "Ok" ELSE "Io",
      val |-> IF r.ok
              THEN [i \in 1..length |-> r.val[2 * i - 1] * 256 + r.val[2 * i]]
              ELSE <<>>,
      pos |-> r.pos]

\* Data::read_utf8
ReadUtf8(rd, length) ==
  LET data == ReadU8Vec(rd, length)
      s == FromUtf8(data.val)
  IN IF data.kind # "Ok" THEN data
     ELSE IF s.ok THEN [kind |-> "Ok", val |-> s.s, pos |-> data.pos]
     ELSE [kind |-> "Utf8", val |-> <<>>, pos |-> data.pos]

\* read_utf16 without the seek over the padding byte of an odd length
ReadUtf16NoSkip(rd, length) ==
  LET data == ReadU16Vec(rd, length \div 2)
      s == FromUtf16(data.val)
  IN IF data.kind # "Ok" THEN data
     ELSE IF s.ok THEN [kind |-> "Ok", val |-> s.s, pos |-> data.pos]
     ELSE [kind |-> "Utf16", val |-> <<>>, pos |-> data.pos]

\* Data::read_utf16
ReadUtf16(rd, length) ==
  LET data == ReadU16Vec(rd, length \div 2)
      pos == IF length % 2 = 1 THEN data.pos + 1 ELSE data.pos
      s == FromUtf16(data.val)
  IN IF data.kind # "Ok" THEN data
     ELSE IF s.ok THEN [kind |-> "Ok", val |-> s.s, pos |-> pos]
     ELSE [kind |-> "Utf16", val |-> <<>>, pos |-> pos]

\* ------------------------------------------------------------------------
\* Data::len
DataLen(d) ==
  CASE d.tag = "Reserved" -> Len(d.val)
    [] d.tag = "Utf8" -> StrLen(d.val)
    [] d.tag = "Utf16" -> StrLen(d.val) * 2
    [] d.tag = "Jpeg" -> Len(d.val)
    [] d.tag = "Png" -> Len(d.val)
    [] OTHER -> 0

\* The outcome of a call on a Data value: the value afterwards, the error
\* kind ("Ok" for success), the code an UnknownDataType error carries, and
\* the reader position afterwards.
Outcome(d, kind, code, pos) ==
  [data |-> d, kind |-> kind, code |-> code, pos |-> pos]

\* the type code of a resolved variant (the match of write_typed)
CodeOf(d) ==
  CASE d.tag = "Reserved" -> RESERVED
    [] d.tag = "Utf8" -> UTF8
    [] d.tag = "Utf16" -> UTF16
    [] d.tag = "Jpeg" -> JPEG
    [] d.tag = "Png" -> PNG

\* an assignment made before the read is known to have succeeded
AssignEager(self, r, d) == Outcome(d, r.kind, NoCode, r.pos)

\* `*self = Data::X(read(reader, l)?)`: `?` returns the error of the read
\* before `self` is assigned
Assign(self, r, d) ==
  IF r.kind = "Ok" THEN Outcome(d, "Ok", NoCode, r.pos)
  ELSE Outcome(self, r.kind, NoCode, r.pos)

\* the match with the JPEG and PNG arms exchanged
ParseBodySwapped(self, datatype, rd, l) ==
  LET bytes == ReadU8Vec(rd, l)
  IN CASE datatype = Word32(RESERVED) -> Assign(self, bytes, Reserved(bytes.val))
       [] datatype = Word32(UTF8) ->
            LET r == ReadUtf8(rd, l) IN Assign(self, r, Utf8(r.val))
       [] datatype = Word32(UTF16) ->
            LET r == ReadUtf16(rd, l) IN Assign(self, r, Utf16(r.val))
       [] datatype = Word32(JPEG) -> Assign(self, bytes, Png(bytes.val))
       [] datatype = Word32(PNG) -> Assign(self, bytes, Jpeg(bytes.val))
       [] OTHER -> Outcome(self, "UnknownDataType", datatype, rd.pos)

\* Data::parse, the match on the effective type code (lines 91-103)
ParseBody(self, datatype, rd, l) ==
  LET bytes == ReadU8Vec(rd, l)
  IN CASE datatype = Word32(RESERVED) -> Assign(self, bytes, Reserved(bytes.val))
       [] datatype = Word32(UTF8) ->
            LET r == ReadUtf8(rd, l) IN Assign(self, r, Utf8(r.val))
       [] datatype = Word32(UTF16) ->
            LET r == ReadUtf16(rd, l) IN Assign(self, r, Utf16(r.val))
       [] datatype = Word32(JPEG) -> Assign(self, bytes, Jpeg(bytes.val))
       [] datatype = Word32(PNG) -> Assign(self, bytes, Png(bytes.val))
       [] OTHER -> Outcome(self, "UnknownDataType", datatype, rd.pos)

\* a parse that decodes again when the value is already resolved
ParseRestartable(self, rd, length) ==
  IF self.tag = "Unparsed" THEN
    IF self.code = Word32(TYPED) THEN
      IF length > 8 THEN
        LET h == ReadExact(rd, 4)
        IN IF ~h.ok THEN Outcome(self, "Io", NoCode, h.pos)
           ELSE ParseBody(self, ReadI32(h.val),
                          [buf |-> rd.buf, pos |-> h.pos + 4], length - 8)
      ELSE Outcome(self, "Parsing", NoCode, rd.pos)
    ELSE ParseBody(self, self.code, rd, length)
  ELSE ParseBody(self, Word32(CodeOf(self)), rd, length)

\* Data::parse
Parse(self, rd, length) ==
  IF self.tag = "Unparsed" THEN
    IF self.code = Word32(TYPED) THEN
      IF length > 8 THEN
        LET h == ReadExact(rd, 4)
        IN IF ~h.ok THEN Outcome(self, "Io", NoCode, h.pos)
           ELSE ParseBody(self, ReadI32(h.val),
                          [buf |-> rd.buf, pos |-> h.pos + 4], length - 8)
      ELSE Outcome(self, "Parsing", NoCode, rd.pos)
    ELSE ParseBody(self, self.code, rd, length)
  ELSE Outcome(self, "Parsing", NoCode, rd.pos)

\* The outcome of a write: the error kind and the bytes that reached the
\* writer before the call returned.
Written(kind, bytes) == [kind |-> kind, bytes |-> bytes]

\* the bytes write_u16::<BigEndian> writes for each unit of encode_utf16
Utf16Bytes(s) ==
  LET u == EncodeUtf16(s)
  IN Concat([i \in 1..Len(u) |-> WriteU16(u[i])], Len(u))

\* a write_raw that writes one byte per character of a Utf8 string
WriteRawLatin1(self) ==
  CASE self.tag = "Reserved" -> Written("Ok", self.val)
    [] self.tag = "Utf8" ->
         Written("Ok", [i \in 1..Len(self.val) |-> self.val[i] % 256])
    [] self.tag = "Utf16" -> Written("Ok", Utf16Bytes(self.val))
    [] self.tag = "Jpeg" -> Written("Ok", self.val)
    [] self.tag = "Png" -> Written("Ok", self.val)
    [] OTHER -> Written("UnWritableDataType", <<>>)

\* Data::write_raw
WriteRaw(self) ==
  CASE self.tag = "Reserved" -> Written("Ok", self.val)
    [] self.tag = "Utf8" -> Written("Ok", AsBytes(self.val))
    [] self.tag = "Utf16" -> Written("Ok", Utf16Bytes(self.val))
    [] self.tag = "Jpeg" -> Written("Ok", self.val)
    [] self.tag = "Png" -> Written("Ok", self.val)
    [] OTHER -> Written("UnWritableDataType", <<>>)

\* a write_typed that writes the sub-header before it looks at the variant
WriteTypedHeaderFirst(self) ==
  LET datatype == IF self.tag = "Unparsed" THEN self.code
                  ELSE WriteI32(CodeOf(self))
      head == datatype \o <<0, 0, 0, 0>>
      raw == WriteRaw(self)
  IN Written(raw.kind, head \o raw.bytes)

\* Data::write_typed
WriteTyped(self) ==
  IF self.tag = "Unparsed" THEN Written("UnWritableDataType", <<>>)
  ELSE LET head == WriteI32(CodeOf(self)) \o <<0, 0, 0, 0>>
           raw == WriteRaw(self)
       IN Written(raw.kind, head \o raw.bytes)

\* ------------------------------------------------------------------------
\* The Content enum.  A Content is the record [kind, data, atoms]: `data` is
\* the Data of RawData/TypedData, `atoms` the Vec<Atom> of Atoms.  An Atom is
\* the record [head, offset, content].
NoData == Reserved(<<>>)
RawData(d) == [kind |-> "RawData", data |-> d, atoms |-> <<>>]
TypedData(d) == [kind |-> "TypedData", data |-> d, atoms |-> <<>>]
Empty == [kind |-> "Empty", data |-> NoData, atoms |-> <<>>]
Atoms(v) == [kind |-> "Atoms", data |-> NoData, atoms |-> v]
AtomWith(head, offset, content) ==
  [head |-> head, offset |-> offset, content |-> content]

HasData(c) == c.kind \in {"RawData", "TypedData"}

RECURSIVE ContentLen(_)
\* Atom::len: the 8 byte record header, the skipped offset and the body
AtomLen(a) == 8 + a.offset + ContentLen(a.content)

\* Content::len
ContentLen(self) ==
  LET RECURSIVE sum(_)
      sum(i) == IF i > Len(self.atoms) THEN 0
                ELSE AtomLen(self.atoms[i]) + sum(i + 1)
  IN CASE self.kind = "Atoms" -> sum(1)
       [] self.kind = "TypedData" -> 8 + DataLen(self.data)
       [] self.kind = "RawData" -> DataLen(self.data)
       [] OTHER -> 0

RECURSIVE ContentWriteTo(_)
\* Atom::write_to: the size, the tag, the zeroed offset bytes, then the body
AtomWriteTo(a) ==
  LET body == ContentWriteTo(a.content)
  IN Written(body.kind,
             WriteI32(AtomLen(a)) \o a.head \o [i \in 1..a.offset |-> 0]
             \o body.bytes)

\* Content::write_to: the children are written in order up to the first one
\* that fails
ContentWriteTo(self) ==
  LET RECURSIVE each(_)
      each(i) ==
        IF i > Len(self.atoms) THEN Written("Ok", <<>>)
        ELSE LET a == AtomWriteTo(self.atoms[i])
                 rest == each(i + 1)
             IN IF a.kind # "Ok" THEN a
                ELSE Written(rest.kind, a.bytes \o rest.bytes)
  IN CASE self.kind = "Atoms" -> each(1)
       [] self.kind = "RawData" -> WriteRaw(self.data)
       [] self.kind = "TypedData" -> WriteTyped(self.data)
       [] OTHER -> Written("Ok", <<>>)

\* The outcome of a call on a Content value
ContentOutcome(c, kind, code, pos) ==
  [content |-> c, kind |-> kind, code |-> code, pos |-> pos]

\* the tag of the generic data record, "data"
DataTag == <<100, 97, 116, 97>>

\* The outcome of reading one record: the atom read, its size, the error
\* kind and the reader position afterwards
Record(kind, code, pos, atom, size) ==
  [kind |-> kind, code |-> code, pos |-> pos, atom |-> atom, size |-> size]

\* The record of a "data" atom whose body was decoded with outcome `body`
DataRecord(tag, size, body) ==
  Record(body.kind, body.code, body.pos,
         AtomWith(tag, 0, TypedData(body.data)), size)

\* Atom::parse: one record is its size (4 bytes, the 8 header bytes
\* included), its tag (4 bytes) and its body.  The body of a "data" record
\* is decoded as TypedData; the body of any other record is skipped and its
\* content is Empty.  A size below 8 or beyond `budget` is a Parsing failure,
\* a short read an Io failure.
ParseAtom(rd, budget) ==
  LET h == ReadExact(rd, 8)
      size == h.val[3] * 256 + h.val[4]
      tag == SubSeq(h.val, 5, 8)
      none == AtomWith(tag, 0, Empty)
  IN IF ~h.ok THEN Record("Io", NoCode, h.pos, AtomWith(<<>>, 0, Empty), 0)
     ELSE IF h.val[1] > 0 \/ h.val[2] > 0 \/ size < 8 \/ size > budget
     THEN Record("Parsing", NoCode, h.pos, none, 0)
     ELSE IF tag = DataTag
     THEN DataRecord(tag, size,
                     Parse(Unparsed(Word32(TYPED)),
                           [buf |-> rd.buf, pos |-> h.pos], size - 8))
     ELSE Record("Ok", NoCode, h.pos + size - 8, none, size)

RECURSIVE ParseAtomsFrom(_, _, _, _)
\* One step of Atom::parse_atoms after the record `a` was read: a failed
\* record ends the call with the list as it is, a read one is appended
AfterAtom(c, rd, length, parsed, a) ==
  IF a.kind # "Ok" THEN ContentOutcome(c, a.kind, a.code, a.pos)
  ELSE ParseAtomsFrom([c EXCEPT !.atoms = Append(@, a.atom)],
                      [buf |-> rd.buf, pos |-> a.pos], length, parsed + a.size)

\* The loop of Atom::parse_atoms, `parsed` bytes of `length` consumed
ParseAtomsFrom(c, rd, length, parsed) ==
  IF parsed >= length THEN ContentOutcome(c, "Ok", NoCode, rd.pos)
  ELSE AfterAtom(c, rd, length, parsed, ParseAtom(rd, length - parsed))

\* Atom::parse_atoms: sibling records are read from the reader until
\* `length` bytes are consumed, and each one is appended to the list; the
\* records appended before a failure stay in the list.
ParseAtoms(self, rd, length) == ParseAtomsFrom(self, rd, length, 0)

\* Content::parse
ContentParse(self, rd, length) ==
  CASE self.kind = "Atoms" -> ParseAtoms(self, rd, length)
    [] HasData(self) ->
         LET o == Parse(self.data, rd, length)
         IN ContentOutcome([self EXCEPT !.data = o.data], o.kind, o.code, o.pos)
    [] OTHER -> ContentOutcome(self, "Ok", NoCode, rd.pos)

\* #[derive(PartialEq)] for Data
DataEq(d, od) == d.tag = od.tag /\ d.val = od.val /\ d.code = od.code
DataNe(d, od) == ~DataEq(d, od)

RECURSIVE ContentEq(_, _)
\* PartialEq for Atom: tag, offset and content
AtomEq(a, oa) ==
  a.head = oa.head /\ a.offset = oa.offset /\ ContentEq(a.content, oa.content)

\* PartialEq for Vec<Atom>: same length and every pair of elements equal
AtomsEq(v, ov) ==
  Len(v) = Len(ov) /\ \A i \in 1..Len(v) : AtomEq(v[i], ov[i])

\* PartialEq::eq for Content
ContentEq(self, other) ==
  CASE self.kind = "Atoms" /\ other.kind = "Atoms" ->
         AtomsEq(self.atoms, other.atoms)
    [] self.kind = "RawData" /\ other.kind = "RawData" ->
         DataEq(self.data, other.data)
    [] self.kind = "TypedData" /\ other.kind = "TypedData" ->
         DataEq(self.data, other.data)
    [] self.kind = "Empty" /\ other.kind = "Empty" -> TRUE
    [] OTHER -> FALSE

\* PartialEq::ne for Content
ContentNe(self, other) ==
  CASE self.kind = "Atoms" /\ other.kind = "Atoms" ->
         ~AtomsEq(self.atoms, other.atoms)
    [] self.kind = "RawData" /\ other.kind = "RawData" ->
         DataNe(self.data, other.data)
    [] self.kind = "TypedData" /\ other.kind = "TypedData" ->
         DataNe(self.data, other.data)
    [] self.kind = "Empty" /\ other.kind = "Empty" -> TRUE
    [] OTHER -> TRUE

\* ------------------------------------------------------------------------
\* Bounds and input sets
MaxTextLen == 2
MaxVecLen == 2
MaxPayload == 2
MaxWrites == 1

SeqsUpTo(S, n) == UNION {[1..k -> S] : k \in 0..n}

\* type codes handed to Unparsed or found in a sub-header: the five decodable
\* ones, TYPED, and two well-known codes that are not decodable; a sub-header
\* may also hold a word no constant names (FF FF FF FE)
Codes ==
  {Word32(c) : c \in {TYPED, RESERVED, UTF8, UTF16, UTF8SORT, JPEG, PNG, BESIGNED}}
Supported == {Word32(c) : c \in {RESERVED, UTF8, UTF16, JPEG, PNG}}
Validated == {Word32(c) : c \in {RESERVED, UTF8, UTF16}}

\* 'A', U+00E9 (two UTF-8 bytes, one UTF-16 unit), U+10000 (four UTF-8
\* bytes, a surrogate pair)
Chars == {65, 233, 65536}
Texts == SeqsUpTo(Chars, MaxTextLen)
ByteVecs == SeqsUpTo({65, 255}, MaxVecLen)

ResolvedInputs ==
  {Reserved(v) : v \in ByteVecs} \cup {Jpeg(v) : v \in ByteVecs}
  \cup {Png(v) : v \in ByteVecs}
  \cup {Utf8(t) : t \in Texts} \cup {Utf16(t) : t \in Texts}
UnparsedInputs == {Unparsed(c) : c \in Codes}

DataAtom == AtomWith(DataTag, 0, TypedData(Utf8(<<65>>)))
Utf16Atom == AtomWith(DataTag, 0, TypedData(Utf16(<<233>>)))
MetaAtom == AtomWith(<<109, 101, 116, 97>>, 4, Empty)
HollowAtom == AtomWith(<<109, 101, 116, 97>>, 4, Atoms(<<>>))
PendingAtom == AtomWith(DataTag, 0, TypedData(Unparsed(Word32(TYPED))))
TreeInputs ==
  {Empty, Atoms(<<>>), Atoms(<<DataAtom>>), Atoms(<<MetaAtom>>),
   Atoms(<<HollowAtom>>), Atoms(<<DataAtom, MetaAtom>>),
   Atoms(<<MetaAtom, DataAtom>>), Atoms(<<Utf16Atom>>),
   Atoms(<<DataAtom, PendingAtom>>)}

\* the contents compared with `self` by eq and ne
OtherInputs ==
  TreeInputs
  \cup {RawData(d) : d \in {Utf8(<<65>>), Utf16(<<65>>), Reserved(<<65>>),
                            Reserved(<<>>), Unparsed(Word32(UTF8))}}
  \cup {TypedData(d) : d \in {Utf8(<<65>>), Utf16(<<65>>), Reserved(<<>>),
                              Unparsed(Word32(UTF8)), Unparsed(Word32(TYPED))}}

\* payload bytes: lead, continuation and surrogate bytes in every order up
\* to MaxPayload, the encodings of every text, and longer ill-formed ones
PayloadBytes == {0, 65, 195, 169, 216, 220}
Payloads ==
  SeqsUpTo(PayloadBytes, MaxPayload)
  \cup {AsBytes(t) : t \in Texts}
  \cup {Utf16Bytes(t) : t \in Texts}
  \cup {<<216, 0, 0, 65>>, <<220, 0, 216, 0>>, <<240, 144, 128>>,
        <<0, 65, 169>>, <<216, 0, 220, 0, 255>>, <<65, 195, 169>>}
TypedBodies ==
  SeqsUpTo({65, 195}, MaxPayload - 1)
  \cup {<<195, 169>>, <<0, 233>>, <<0, 65, 7>>, <<216, 0, 220, 0>>,
        <<216, 0, 0, 65>>, <<240, 144, 128, 128>>}
TypedSources ==
  {c \o <<0, 0, 0, 0>> \o p : c \in Codes \cup {<<255, 255, 255, 254>>},
                               p \in TypedBodies}
  \cup {WriteI32(UTF8) \o <<0, 0, 1, 9>> \o <<65>>}
  \cup {<<0, 0>>, <<0, 0, 0, 1>>, <<0, 0, 0, 1, 0, 0>>}

\* ------------------------------------------------------------------------
\* State
VARIABLES
  content,  \* the Content value the calls are made on
  reader,   \* the Cursor handed to parse: [buf, pos]
  writer,   \* the bytes written to the sink so far
  writes,   \* the number of write calls made so far
  call,     \* the last call: its name, arguments and the state it started in
  ret,      \* what the last call returned
  orig      \* the Data whose written bytes the reader holds, and how it
            \* was written: [data, how]

vars == <<content, reader, writer, writes, call, ret, orig>>

Call(op, length, other) ==
  [op |-> op, length |-> length, other |-> other, content |-> content,
   pos |-> reader.pos, written |-> Len(writer)]
Ret(kind, code, n, b) == [kind |-> kind, code |-> code, n |-> n, b |-> b]

Fresh ==
  /\ writer = <<>>
  /\ writes = 0
  /\ call = [op |-> "none", length |-> 0, other |-> Empty,
             content |-> content, pos |-> 0, written |-> 0]
  /\ ret = Ret("Ok", NoCode, 0, FALSE)
  /\ orig = [data |-> NoData, how |-> "none"]

\* A Data value and a source as the atom layer hands them over:
\* Unparsed(TYPED) in front of a sub-header, Unparsed with a code whose
\* payload is validated or copied in front of payload bytes, Unparsed with
\* another code, or an already resolved value.
Init ==
  /\ \/ /\ content = TypedData(Unparsed(Word32(TYPED)))
        /\ \E b \in TypedSources : reader = [buf |-> b, pos |-> 0]
     \/ /\ content \in {RawData(Unparsed(c)) : c \in Validated}
        /\ \E b \in Payloads : reader = [buf |-> b, pos |-> 0]
     \/ /\ content \in {RawData(Unparsed(c)) : c \in Codes \ Validated}
                       \cup {RawData(d) : d \in ResolvedInputs}
        /\ \E b \in {<<>>, <<65, 66>>} : reader = [buf |-> b, pos |-> 0]
  /\ Fresh

\* the declared lengths tried on a source: every prefix and one byte more
Lengths == 0..(Len(reader.buf) + 1)

\* after a failed read the cursor is where the read began or at the end
AfterParse(o) ==
  IF o.kind = "Io" THEN {o.pos, Len(reader.buf)} ELSE {o.pos}

\* Data::parse called on the Data inside the content
DataParse ==
  /\ HasData(content)
  /\ \E length \in Lengths :
       LET o == Parse(content.data, reader, length)
       IN /\ content' = [content EXCEPT !.data = o.data]
          /\ \E p \in AfterParse(o) : reader' = [reader EXCEPT !.pos = p]
          /\ call' = Call("Data::parse", length, Empty)
          /\ ret' = Ret(o.kind, o.code, 0, FALSE)
  /\ UNCHANGED <<writer, writes, orig>>

\* Content::parse
ContentParseCall ==
  /\ \E length \in Lengths :
       LET o == ContentParse(content, reader, length)
       IN /\ content' = o.content
          /\ \E p \in AfterParse(o) : reader' = [reader EXCEPT !.pos = p]
          /\ call' = Call("Content::parse", length, Empty)
          /\ ret' = Ret(o.kind, o.code, 0, FALSE)
  /\ UNCHANGED <<writer, writes, orig>>

Emit(op, w) ==
  /\ writes < MaxWrites
  /\ writes' = writes + 1
  /\ writer' = writer \o w.bytes
  /\ call' = Call(op, 0, Empty)
  /\ ret' = Ret(w.kind, NoCode, 0, FALSE)
  /\ UNCHANGED <<content, reader, orig>>

\* Data::write_raw called on the Data inside the content
DataWriteRaw == HasData(content) /\ Emit("Data::write_raw", WriteRaw(content.data))

\* Data::write_typed called on the Data inside the content
DataWriteTyped ==
  HasData(content) /\ Emit("Data::write_typed", WriteTyped(content.data))

\* Content::write_to
ContentWriteToCall == Emit("Content::write_to", ContentWriteTo(content))

\* Data::len called on the Data inside the content
DataLenCall ==
  /\ HasData(content)
  /\ call' = Call("Data::len", 0, Empty)
  /\ ret' = Ret("Ok", NoCode, DataLen(content.data), FALSE)
  /\ UNCHANGED <<content, reader, writer, writes, orig>>

\* Content::len
ContentLenCall ==
  /\ call' = Call("Content::len", 0, Empty)
  /\ ret' = Ret("Ok", NoCode, ContentLen(content), FALSE)
  /\ UNCHANGED <<content, reader, writer, writes, orig>>

\* content == other
EqCall ==
  /\ \E other \in OtherInputs \cup {content} :
       /\ call' = Call("eq", 0, other)
       /\ ret' = Ret("Ok", NoCode, 0, ContentEq(content, other))
  /\ UNCHANGED <<content, reader, writer, writes, orig>>

\* content != other
NeCall ==
  /\ \E other \in OtherInputs \cup {content} :
       /\ call' = Call("ne", 0, other)
       /\ ret' = Ret("Ok", NoCode, 0, ContentNe(content, other))
  /\ UNCHANGED <<content, reader, writer, writes, orig>>

\* The calls of the Data API on one Data value
Next ==
  \/ DataParse
  \/ DataWriteRaw
  \/ DataWriteTyped
  \/ DataLenCall

Spec == Init /\ [][Next]_vars

\* ------------------------------------------------------------------------
\* The calls of the Content API on one Content value
\* a stream of two sibling records: a "data" record and a "meta" record
AtomStream == AtomWriteTo(DataAtom).bytes \o AtomWriteTo(MetaAtom).bytes

InitContent ==
  /\ \/ /\ content \in {RawData(d) : d \in ResolvedInputs \cup UnparsedInputs}
                       \cup {TypedData(d) : d \in ResolvedInputs \cup UnparsedInputs}
                       \cup TreeInputs
        /\ \E b \in {<<65, 66>>,
                     WriteI32(UTF16) \o <<0, 0, 0, 0>> \o <<0, 233, 7>>} :
             reader = [buf |-> b, pos |-> 0]
     \/ /\ content \in TreeInputs
        /\ reader = [buf |-> AtomStream, pos |-> 0]
  /\ Fresh

NextContent ==
  \/ ContentParseCall
  \/ ContentWriteToCall
  \/ ContentLenCall
  \/ EqCall
  \/ NeCall

SpecContent == InitContent /\ [][NextContent]_vars

\* ------------------------------------------------------------------------
\* Round trip: a resolved value is written, then the caller opens a Cursor on
\* the bytes that call wrote and decodes a new Unparsed value from it.
InitRT ==
  /\ content \in {RawData(d) : d \in ResolvedInputs}
  /\ reader = [buf |-> <<>>, pos |-> 0]
  /\ Fresh

Reopen ==
  /\ orig.how = "none"
  /\ call.op \in {"Data::write_raw", "Data::write_typed"}
  /\ ret.kind = "Ok"
  /\ content' = [content EXCEPT !.data =
                    Unparsed(Word32(IF call.op = "Data::write_typed" THEN TYPED
                                    ELSE CodeOf(content.data)))]
  /\ reader' = [buf |-> SubSeq(writer, call.written + 1, Len(writer)),
                pos |-> 0]
  /\ orig' = [data |-> content.data, how |-> call.op]
  /\ call' = [call EXCEPT !.op = "reopen"]
  /\ UNCHANGED <<writer, writes, ret>>

NextRT == Next \/ Reopen

SpecRT == InitRT /\ [][NextRT]_vars

\* ------------------------------------------------------------------------
\* Properties

\* the Data before and after the last call
Before == call.content.data
Now == content.data
Decoded == call.op = "Data::parse" /\ Before.tag = "Unparsed"

\* where the payload of the last decode began and the budget it had
BodyStart == IF Before.code = Word32(TYPED) THEN call.pos + 8 ELSE call.pos
Budget == IF Before.code = Word32(TYPED) THEN call.length - 8 ELSE call.length
BodyBytes == SubSeq(reader.buf, BodyStart + 1, BodyStart + Budget)
WrittenBytes == SubSeq(writer, call.written + 1, Len(writer))

\* C1: a resolved value written by write_typed and decoded as
\* Unparsed(TYPED) with the number of bytes written as declared length
\* decodes successfully to an equal value.
C1_TypedRoundTrip ==
  (/\ Decoded
   /\ orig.how = "Data::write_typed"
   /\ Before = Unparsed(Word32(TYPED))
   /\ call.pos = 0
   /\ call.length = Len(reader.buf))
  => (ret.kind = "Ok" /\ Now = orig.data)

\* C2: len() of Utf16(text) is twice the number of Unicode scalar values of
\* text.
C2_Utf16LenTwiceScalars ==
  (call.op = "Data::len" /\ Now.tag = "Utf16")
  => ret.n = 2 * Len(Now.val)

\* the variant the word of a decodable type code resolves to
VariantOf(e) ==
  CASE e = Word32(RESERVED) -> "Reserved"
    [] e = Word32(UTF8) -> "Utf8"
    [] e = Word32(UTF16) -> "Utf16"
    [] e = Word32(JPEG) -> "Jpeg"
    [] e = Word32(PNG) -> "Png"

\* well-formed payloads: the encodings of the strings of at most three of
\* these characters
WellFormedTexts == SeqsUpTo({0, 65, 233, 65536}, 3)
WellFormedUtf8 == {AsBytes(t) : t \in WellFormedTexts}
WellFormedUtf16 == {Utf16Bytes(t) : t \in WellFormedTexts}

\* the sub-header of the last decode could be read
HeaderRead ==
  Before.code = Word32(TYPED) => (call.length > 8 /\ call.pos + 4 <= Len(reader.buf))

\* the type code the last decode dispatched on
EffectiveCode ==
  IF Before.code = Word32(TYPED)
  THEN ReadI32(SubSeq(reader.buf, call.pos + 1, call.pos + 4))
  ELSE Before.code

\* the source held the whole payload, and it was well-formed for the code
EnoughWellFormed ==
  /\ BodyStart + Budget <= Len(reader.buf)
  /\ EffectiveCode = Word32(UTF8) => BodyBytes \in WellFormedUtf8
  /\ EffectiveCode = Word32(UTF16) =>
       SubSeq(BodyBytes, 1, 2 * (Budget \div 2)) \in WellFormedUtf16

\* C3: decoding Unparsed(code) from enough well-formed bytes succeeds with
\* the matching variant when the effective type code (the code itself, or
\* the one read from the sub-header when the code is TYPED) is one of
\* 0, 1, 2, 13, 14, and otherwise fails with UnknownDataType carrying the
\* effective code and leaves the value Unparsed with its code.
C3_Dispatch ==
  (Decoded /\ HeaderRead)
  => IF EffectiveCode \in Supported
     THEN EnoughWellFormed
          => (ret.kind = "Ok" /\ Now.tag = VariantOf(EffectiveCode))
     ELSE /\ ret.kind = "UnknownDataType"
          /\ ret.code = EffectiveCode
          /\ Now = Before

C3_Witness ==
  /\ Decoded /\ HeaderRead /\ EnoughWellFormed
  /\ Before.code = Word32(TYPED)
  /\ EffectiveCode = Word32(PNG)
  /\ Budget > 0
  /\ Now.tag = "Png"

\* C4: once the value is resolved, no call changes it, and every decode
\* fails with Parsing and leaves the reader where it was.
C4_ResolvedIsTerminal ==
  [][IsResolved(content.data)
     => /\ content' = content
        /\ call'.op = "Data::parse"
           => (ret'.kind = "Parsing" /\ reader' = reader)]_vars

C4_Witness ==
  /\ call.op = "Data::parse"
  /\ IsResolved(Before)
  /\ reader.pos > 0
  /\ Remaining(reader) > 0
  /\ ret.kind = "Parsing"
  /\ Now = Before

\* C5: write_raw and write_typed of an Unparsed value fail with
\* UnWritableDataType and write no byte.
C5_UnparsedUnwritable ==
  (call.op \in {"Data::write_raw", "Data::write_typed"} /\ Now.tag = "Unparsed")
  => (ret.kind = "UnWritableDataType" /\ writer = SubSeq(writer, 1, call.written))

C5_Witness ==
  /\ call.op = "Data::write_typed"
  /\ Now.tag = "Unparsed"
  /\ ret.kind = "UnWritableDataType"
  /\ writer = <<>>

\* the payload bytes of a Reserved, Utf8, Jpeg or Png value
PayloadOf(d) == IF d.tag = "Utf8" THEN AsBytes(d.val) ELSE d.val
ByteValued(d) == d.tag \in {"Reserved", "Utf8", "Jpeg", "Png"}

\* C6: for a Reserved, Utf8, Jpeg or Png value with a payload of L bytes,
\* len() is L, write_raw writes exactly the L payload bytes, and decoding
\* Unparsed(code of the variant) from them with declared length L yields an
\* equal value.
C6_RawRoundTrip ==
  /\ (call.op = "Data::len" /\ ByteValued(Now))
     => ret.n = Len(PayloadOf(Now))
  /\ (call.op = "Data::write_raw" /\ ByteValued(Now))
     => (ret.kind = "Ok" /\ WrittenBytes = PayloadOf(Now))
  /\ (/\ Decoded
      /\ orig.how = "Data::write_raw"
      /\ ByteValued(orig.data)
      /\ Before = Unparsed(Word32(CodeOf(orig.data)))
      /\ call.pos = 0
      /\ call.length = Len(PayloadOf(orig.data)))
     => (ret.kind = "Ok" /\ Now = orig.data /\ reader.pos = call.length)

C6_Witness ==
  /\ Decoded
  /\ orig.how = "Data::write_raw"
  /\ orig.data = Utf8(<<65, 233>>)
  /\ Before = Unparsed(Word32(UTF8))
  /\ call.pos = 0
  /\ call.length = 3
  /\ Now = orig.data

\* the big-endian 16 bit units in the first 2 * n bytes after position p
UnitsAt(p, n) ==
  [i \in 1..n |-> reader.buf[p + 2 * i - 1] * 256 + reader.buf[p + 2 * i]]

\* C7: a successful Utf16 decode with budget L decodes the floor(L/2)
\* big-endian units at the payload start, moves the reader by exactly L (one
\* byte past the units when L is odd), and yields the text the even budget
\* L - 1 yields.
C7_Utf16OddPadding ==
  (Decoded /\ ret.kind = "Ok" /\ Now.tag = "Utf16")
  => /\ reader.pos = BodyStart + Budget
     /\ Now.val = FromUtf16(UnitsAt(BodyStart, Budget \div 2)).s
     /\ Budget % 2 = 1
        => LET even == ReadUtf16([buf |-> reader.buf, pos |-> BodyStart],
                                 Budget - 1)
           IN even.kind = "Ok" /\ Now.val = even.val

C7_Witness ==
  /\ Decoded /\ ret.kind = "Ok" /\ Now.tag = "Utf16"
  /\ Budget % 2 = 1
  /\ Budget >= 3
  /\ Len(Now.val) > 0
  /\ BodyStart + Budget <= Len(reader.buf)
  /\ reader.buf[BodyStart + Budget] # 0
  /\ reader.pos = BodyStart + Budget

\* C8: a decode of Unparsed(code) that fails, whatever the failure, leaves
\* the value Unparsed with the same code.
C8_FailedDecodeKeepsUnparsed ==
  (Decoded /\ ret.kind # "Ok") => Now = Before

C8_Witness ==
  /\ Decoded
  /\ ret.kind = "Utf16"
  /\ Before.code = Word32(TYPED)
  /\ reader.pos > call.pos + 8
  /\ Now = Unparsed(Word32(TYPED))

\* C9: a successful Content::write_to writes exactly len() bytes.
C9_WriteMatchesLen ==
  (call.op = "Content::write_to" /\ ret.kind = "Ok")
  => Len(WrittenBytes) = ContentLen(content)

\* same variant and equal inner values
SameContent(a, b) == a.kind = b.kind /\ a.data = b.data /\ a.atoms = b.atoms

\* C10: a == b exactly when a and b are the same variant with equal inner
\* values, and a != b is the negation of a == b.
C10_EqNeConsistent ==
  /\ call.op = "eq" => (ret.b <=> SameContent(content, call.other))
  /\ call.op = "ne" => (ret.b <=> ~ContentEq(content, call.other))

====
